---- MODULE Spec2Model ----
(***************************************************************************)
(* Model of builder.py: the build-matrix expansion and context-assembly   *)
(* pipeline (main -> build_all_combinations -> get_all_combinations,      *)
(* docker_context, get_image_name, build).                                 *)
(*                                                                         *)
(* Python strings are sequences of one-character strings, so that split,   *)
(* strip, join and sorted() are computed as the code computes them.        *)
(* Python dicts are functions (records); an ordered dict is a sequence of  *)
(* [name, ...] records.  None is the record PyNone, a present list is      *)
(* PyList(items).  A call's outcome is Ok(value) or Raise(exception).      *)
(*                                                                         *)
(* Outside the model: the --help exit, the parsing of YAML and of the      *)
(* Jinja2 template (a rendered text is a function of template, options and *)
(* combination), and transport errors of the build engine.                 *)
(***************************************************************************)
EXTENDS Integers, Sequences, FiniteSets, TLC

VARIABLES
  matrix,         \* the loaded matrix.yml (axes, blacklist, templates, options)
  args,           \* the parsed command line: option name -> value
  dir,            \* the base directory: files, unreadable files, .dockerignore
  engine,         \* the streams the build engine returns to the coming build calls
  pc,             \* position of the program
  final_options,  \* main(): the resolved options
  combinations,   \* build_all_combinations: the surviving combinations
  idx,            \* build_all_combinations: index of the current combination
  dockerfile,     \* build_all_combinations: the rendered build definition
  exclude,        \* docker_context: the cleaned ignore patterns (line 52)
  context,        \* build_all_combinations: the packed archive (its entries)
  image_name,     \* build_all_combinations: the current image name
  stream,         \* build(): the event stream of the running build call
  consumed,       \* build(): number of events taken from the stream
  raised,         \* build(): the BuildingException in flight (or PyNone)
  requests,       \* the build requests the engine has received
  stdout,         \* everything printed, one entry per print call
  exception       \* the uncaught exception that ended the process (or PyNone)

vars == <<matrix, args, dir, engine, pc, final_options, combinations, idx,
          dockerfile, exclude, context, image_name, stream, consumed, raised,
          requests, stdout, exception>>

----------------------------------------------------------------------------
(* Python values *)

PyNone == [tag |-> "None"]
PyList(items) == [tag |-> "list", items |-> items]
IsNone(v) == v.tag = "None"

Ok(v) == [kind |-> "ok", value |-> v]
Raise(e) == [kind |-> "raise", exc |-> e]
IsOk(r) == r.kind = "ok"

----------------------------------------------------------------------------
(* Strings: sequences of characters *)

\* the characters used, in code-point order (the order of sorted())
CodePoints == <<"*", "-", ".", "/", "2", "D", "a", "b", "c", "e", "f", "g",
                "h", "i", "j", "k", "l", "m", "n", "o", "p", "r", "s", "t", "x",
                "y", "~">>

CharRank(c) == CHOOSE i \in 1..Len(CodePoints) : CodePoints[i] = c

Sep == "/"
StarStar == <<"*", "*">>
Star == <<"*">>

RECURSIVE StrLess(_, _)
\* s < t on Python strings
StrLess(s, t) ==
  IF s = <<>> THEN t # <<>>
  ELSE IF t = <<>> THEN FALSE
  ELSE IF Head(s) = Head(t) THEN StrLess(Tail(s), Tail(t))
  ELSE CharRank(Head(s)) < CharRank(Head(t))

RECURSIVE Sorted(_)
\* sorted(S) of a set of strings
Sorted(S) ==
  IF S = {} THEN <<>>
  ELSE LET m == CHOOSE x \in S : \A y \in S \ {x} : StrLess(x, y)
       IN <<m>> \o Sorted(S \ {m})

RECURSIVE Concat(_)
\* ''.join(parts)
Concat(parts) ==
  IF parts = <<>> THEN <<>> ELSE Head(parts) \o Concat(Tail(parts))

\* sub in s
Contains(s, sub) ==
  \E i \in 1..(Len(s) - Len(sub) + 1) : SubSeq(s, i, i + Len(sub) - 1) = sub

RECURSIVE Split(_, _)
\* s.split(sub): cut at the non-overlapping occurrences of sub, left to right
Split(s, sub) ==
  IF ~Contains(s, sub) THEN <<s>>
  ELSE LET i == CHOOSE k \in 1..(Len(s) - Len(sub) + 1) :
                  /\ SubSeq(s, k, k + Len(sub) - 1) = sub
                  /\ \A j \in 1..(k - 1) : SubSeq(s, j, j + Len(sub) - 1) # sub
       IN <<SubSeq(s, 1, i - 1)>> \o Split(SubSeq(s, i + Len(sub), Len(s)), sub)

RECURSIVE LStrip(_, _)
\* s.lstrip(c)
LStrip(s, c) ==
  IF s # <<>> /\ Head(s) = c THEN LStrip(Tail(s), c) ELSE s

RECURSIVE RStrip(_, _)
\* s.rstrip(c)
RStrip(s, c) ==
  IF s # <<>> /\ s[Len(s)] = c THEN RStrip(SubSeq(s, 1, Len(s) - 1), c) ELSE s

RECURSIVE JoinFrom(_, _)
\* posixpath.join: the loop over the later components
JoinFrom(path, rest) ==
  IF rest = <<>> THEN path
  ELSE LET b == Head(rest)
           next == IF b # <<>> /\ Head(b) = Sep THEN b
                   ELSE IF path = <<>> \/ path[Len(path)] = Sep THEN path \o b
                   ELSE path \o <<Sep>> \o b
       IN JoinFrom(next, Tail(rest))

\* os.path.join(*parts)
join(parts) == JoinFrom(Head(parts), Tail(parts))

\* os.path.basename(p)
basename(p) ==
  IF \E i \in 1..Len(p) : p[i] = Sep
  THEN LET i == CHOOSE k \in 1..Len(p) :
                  p[k] = Sep /\ \A j \in (k + 1)..Len(p) : p[j] # Sep
       IN SubSeq(p, i + 1, Len(p))
  ELSE p

\* os.path.expanduser(p) with $HOME = /h
Home == <<"/", "h">>

expanduser(p) ==
  IF p # <<>> /\ Head(p) = "~" /\ (Len(p) = 1 \/ p[2] = Sep)
  THEN Home \o Tail(p)
  ELSE p

----------------------------------------------------------------------------
(* Python truthiness and dict access *)

PyBool(b) == [tag |-> "bool", b |-> b]
PyStr(s) == [tag |-> "str", s |-> s]
PyDict(d) == [tag |-> "dict", d |-> d]

\* bool(v)
Truthy(v) ==
  CASE v.tag = "None" -> FALSE
    [] v.tag = "bool" -> v.b
    [] v.tag = "str" -> v.s # <<>>
    [] v.tag = "list" -> v.items # <<>>
    [] v.tag = "dict" -> DOMAIN v.d # {}

\* d.get(key, default) on a TLA+ function
Get(d, key, default) == IF key \in DOMAIN d THEN d[key] ELSE default

----------------------------------------------------------------------------
(* CombinationExpander: is_blacklisted, get_all_combinations, get_image_name *)

\* set(d.items())
Items(d) == {<<k, d[k]>> : k \in DOMAIN d}

RECURSIVE BlacklistedFrom_Equality(_, _)
\* a faulty loop of is_blacklisted: the entry must equal the combination
BlacklistedFrom_Equality(combination_as_set, rest) ==
  IF rest = <<>> THEN FALSE
  ELSE IF Items(Head(rest)) = combination_as_set THEN TRUE
  ELSE BlacklistedFrom_Equality(combination_as_set, Tail(rest))

RECURSIVE BlacklistedFrom(_, _)
\* the loop of is_blacklisted over the remaining entries
BlacklistedFrom(combination_as_set, rest) ==
  IF rest = <<>> THEN FALSE
  ELSE IF Items(Head(rest)) \subseteq combination_as_set THEN TRUE
  ELSE BlacklistedFrom(combination_as_set, Tail(rest))

is_blacklisted(combination, blacklist) ==
  IF IsNone(blacklist) THEN Raise("TypeError")   \* for ... in None
  ELSE Ok(BlacklistedFrom(Items(combination), blacklist.items))

RECURSIVE ExtendAll(_, _)
\* [x + [y] for x in result for y in pool]
ExtendAll(result, pool) ==
  IF result = <<>> THEN <<>>
  ELSE [j \in 1..Len(pool) |-> Append(Head(result), pool[j])]
       \o ExtendAll(Tail(result), pool)

RECURSIVE ProductFrom(_, _)
\* itertools.product: result = [[]]; for pool in pools: result = [...]
ProductFrom(result, pools) ==
  IF pools = <<>> THEN result
  ELSE ProductFrom(ExtendAll(result, Head(pools)), Tail(pools))

product(pools) == ProductFrom(<<<<>>>>, pools)

\* dict(zip(matrix, combination)) for the ordered mapping axes
ZipDict(axes, tuple) ==
  [n \in {axes[i].name : i \in 1..Len(axes)} |->
     tuple[CHOOSE i \in 1..Len(axes) : axes[i].name = n]]

RECURSIVE CombinationsFrom(_, _, _, _, _)
\* the loop of get_all_combinations over the remaining tuples
CombinationsFrom(result, printed, tuples, axes, blacklist) ==
  IF tuples = <<>> THEN Ok([result |-> result, printed |-> printed])
  ELSE LET combination == ZipDict(axes, Head(tuples))
           b == is_blacklisted(combination, blacklist)
       IN IF ~IsOk(b) THEN b
          ELSE IF b.value
          THEN CombinationsFrom(result,
                 Append(printed, [kind |-> "blacklisted", combination |-> combination]),
                 Tail(tuples), axes, blacklist)
          ELSE CombinationsFrom(Append(result, combination), printed,
                 Tail(tuples), axes, blacklist)

get_all_combinations(axes, blacklist) ==
  CombinationsFrom(<<>>, <<>>, product([i \in 1..Len(axes) |-> axes[i].values]),
                   axes, blacklist)

RECURSIVE Format(_, _)
\* template.format(**mapping): a template is a sequence of literal characters
\* and replacement fields [field |-> name]; a mapped value is a string
Format(template, mapping) ==
  IF template = <<>> THEN Ok(<<>>)
  ELSE LET part == Head(template)
           rest == Format(Tail(template), mapping)
       IN IF "field" \in DOMAIN part
          THEN IF part.field \notin DOMAIN mapping THEN Raise("KeyError")
               ELSE IF IsOk(rest) THEN Ok(mapping[part.field] \o rest.value)
               ELSE rest
          ELSE IF IsOk(rest) THEN Ok(<<part.lit>> \o rest.value)
          ELSE rest

\* sha1(s).hexdigest(): a digest is a function of its input alone; it is kept
\* as one token that names the input (collisions are not modelled)
sha1_hexdigest(s) == <<ToString(s)>>

get_image_name(combination, m) ==
  LET formatted_image_id ==
        Format(m.image_id, [n \in DOMAIN combination |-> <<combination[n]>>])
  IN IF ~IsOk(formatted_image_id) THEN formatted_image_id
     ELSE Format(m.image_name, [n \in {"ID"} |-> sha1_hexdigest(formatted_image_id.value)])

----------------------------------------------------------------------------
(* PatternNormalizer: clean_dockerignore, dir_wildcard_workaround *)

\* range(20) of dir_wildcard_workaround
DepthBound == 20

dir_wildcard_workaround(pattern) ==
  LET parts == Split(pattern, StarStar) IN
  IF Len(parts) # 2 THEN Raise("ValueError")   \* header, tail = ... cannot unpack
  ELSE LET tail == LStrip(parts[2], Sep)
           header == RStrip(parts[1], Sep)
       IN Ok([n \in 1..DepthBound |->
                join(<<header>> \o [k \in 1..(n - 1) |-> Star] \o <<tail>>)])

RECURSIVE CleanFrom(_, _)
\* the loop of clean_dockerignore over the remaining patterns
CleanFrom(final_patterns, rest) ==
  IF rest = <<>> THEN Ok(final_patterns)
  ELSE LET pattern == Head(rest) IN
       IF Contains(pattern, StarStar)
       THEN LET w == dir_wildcard_workaround(pattern) IN
            IF IsOk(w) THEN CleanFrom(final_patterns \o w.value, Tail(rest))
            ELSE w
       ELSE CleanFrom(Append(final_patterns, pattern), Tail(rest))

clean_dockerignore(patterns) ==
  IF IsNone(patterns) THEN Raise("TypeError")   \* for pattern in None
  ELSE CleanFrom(<<>>, patterns.items)

----------------------------------------------------------------------------
(* ContextPacker: prepare_string_for_tar, docker_context *)

DockerfileName == <<"D", "o", "c", "k", "e", "r", "f", "i", "l", "e">>
DockerignoreName == <<".", "d", "o", "c", "k", "e", "r", "i", "g", "n", "o", "r", "e">>

\* the archive member prepare_string_for_tar(name, content) describes
prepare_string_for_tar(name, content) ==
  [name |-> name, kind |-> "string", content |-> content]

\* the archive member archive.add(path, arcname=arcname, recursive=False) adds
TarAdd(path, arcname) == [name |-> arcname, kind |-> "file", path |-> path]

\* main, lines 180 and 183: the two files main reads from the base directory
MatrixYml == <<"m", "a", "t", "r", "i", "x", ".", "y", "m", "l">>
TemplateName == <<"D", "o", "c", "k", "e", "r", "f", "i", "l", "e", ".",
                  "j", "i", "n", "j", "a", "2">>

\* the files of the base directory: matrix.yml, Dockerfile.jinja2, the ignore
\* file when there is one, and the others
BaseFiles(d) ==
  d.files \cup {MatrixYml, TemplateName}
          \cup (IF IsNone(d.dockerignore) THEN {} ELSE {DockerignoreName})

RECURSIVE FnMatch(_, _)
\* fnmatch(s, p) for patterns of literal characters and '*'
FnMatch(s, p) ==
  IF p = <<>> THEN s = <<>>
  ELSE IF Head(p) = "*"
       THEN FnMatch(s, Tail(p)) \/ (s # <<>> /\ FnMatch(Tail(s), p))
       ELSE s # <<>> /\ Head(s) = Head(p) /\ FnMatch(Tail(s), Tail(p))

\* the positions of the separators of s
SepPositions(s) == {i \in 1..Len(s) : s[i] = Sep}

\* '/'.join(path.split('/')[:n]): the first n components of path
LeadingComponents(path, n) ==
  IF Cardinality(SepPositions(path)) < n THEN path
  ELSE LET cut == CHOOSE i \in SepPositions(path) :
                    Cardinality({j \in SepPositions(path) : j <= i}) = n
       IN SubSeq(path, 1, cut - 1)

\* docker.utils match_path (library): the pattern, without trailing
\* separators, against as many leading components of the path as it has
MatchPath(path, pattern) ==
  LET pat == RStrip(pattern, Sep)
  IN FnMatch(LeadingComponents(path, Cardinality(SepPositions(pat)) + 1), pat)

\* docker.utils.exclude_paths(root, patterns) (library): the files left
\* after the patterns; Dockerfile and .dockerignore are never excluded.
\* Directories and '!' exceptions are left out.
exclude_paths(d, patterns) ==
  {f \in BaseFiles(d) :
     \/ f \in {DockerfileName, DockerignoreName}
     \/ ~\E i \in 1..Len(patterns) : MatchPath(f, patterns[i])}

\* list(filter(bool, lines))
FilterBool(lines) == SelectSeq(lines, LAMBDA l : l # <<>>)

\* lines 45-52 of docker_context: the ignore patterns read and cleaned
CleanedPatterns(d) ==
  IF ~IsNone(d.dockerignore) /\ DockerignoreName \in d.unreadable
  THEN Raise("IOError")                                   \* open(dockerignore)
  ELSE clean_dockerignore(IF IsNone(d.dockerignore) THEN PyNone
                          ELSE PyList(FilterBool(d.dockerignore.items)))

RECURSIVE AddRoot(_, _, _)
\* lines 55-56: the loop adding the files of the root directory
AddRoot(archive, paths, d) ==
  IF paths = <<>> THEN Ok(archive)
  ELSE IF Head(paths) \in d.unreadable THEN Raise("IOError")
  ELSE AddRoot(Append(archive, TarAdd(join(<<d.root, Head(paths)>>), Head(paths))),
               Tail(paths), d)

RECURSIVE AddOptions(_, _, _)
\* lines 59-63: the loop over options.values()
AddOptions(archive, options, d) ==
  IF options = <<>> THEN Ok(archive)
  ELSE LET option == Head(options) IN
       IF ~Truthy(option.value) THEN AddOptions(archive, Tail(options), d)
       ELSE IF IsNone(option.def) THEN Raise("AttributeError")  \* None.get
       ELSE IF ~Get(option.def.d, "include_file", FALSE)
            THEN AddOptions(archive, Tail(options), d)
       ELSE IF "local_path" \notin DOMAIN option.def.d THEN Raise("KeyError")
       ELSE IF option.def.d.local_path \notin d.outside THEN Raise("IOError")
       ELSE AddOptions(Append(archive, TarAdd(option.def.d.local_path, option.value.s)),
                       Tail(options), d)

docker_context(dockerfile_content, d, options) ==
  LET first == <<prepare_string_for_tar(DockerfileName, dockerfile_content)>>
      cleaned == CleanedPatterns(d)
  IN IF ~IsOk(cleaned) THEN cleaned
     ELSE LET rooted == AddRoot(first, Sorted(exclude_paths(d, cleaned.value)), d)
          IN IF ~IsOk(rooted) THEN rooted
             ELSE AddOptions(rooted.value, options, d)

----------------------------------------------------------------------------
(* main: the options *)

\* lines 188-201: the parser stores a string for an option whose definition
\* has include_file, a flag for every other one
IsStoreOption(option) == Truthy(option) /\ "include_file" \in DOMAIN option.d

\* lines 210-220: one resolved option
ResolveOption(name, option, arg_value) ==
  IF Truthy(option) /\ Get(option.d, "include_file", FALSE) /\ Truthy(arg_value)
  THEN [name |-> name,
        value |-> PyStr(basename(expanduser(arg_value.s))),
        def |-> PyDict([k \in DOMAIN option.d \cup {"local_path"} |->
                          IF k = "local_path" THEN expanduser(arg_value.s)
                          ELSE option.d[k]])]
  ELSE [name |-> name, value |-> arg_value, def |-> option]

\* lines 209-220: final_options, in the order of the options mapping
ResolveOptions(options, a) ==
  [i \in 1..Len(options) |->
     ResolveOption(options[i].name, options[i].def, a[options[i].name])]

----------------------------------------------------------------------------
(* BuildRunner and MatrixOrchestrator *)

\* a faulty BuildingException: it keeps the 'error' item of what it is given
BuildingException_ErrorItem(error) ==
  [tag |-> "BuildingException", error |-> error.d.error]

\* class BuildingException: the exception keeps what it is given as .error
BuildingException(error) == [tag |-> "BuildingException", error |-> error]

TextNone == <<"N", "o", "n", "e">>

\* log_line.get('error', None) is truthy
HasError(e) == "error" \in DOMAIN e /\ Truthy(e.error)

\* what print(log_line.get('stream'), end="") writes
StreamText(e) == IF "stream" \in DOMAIN e THEN e.stream.s ELSE TextNone

\* Template(template).render(options=options, **combination): the text is a
\* function of the template, the options' values and the combination
Render(template, options, combination) ==
  [template |-> template,
   options |-> [i \in 1..Len(options) |-> options[i].value],
   combination |-> combination]

NoException == [type |-> "none", at |-> "none"]
Uncaught(type, at) == [type |-> type, at |-> at]

----------------------------------------------------------------------------
(* Inputs *)

MaxAxisLen == 2       \* values of one axis
MaxBlacklist == 2     \* blacklist entries
MaxPatLen == 4        \* characters of one ignore pattern
MaxIgnoreLines == 2   \* lines of the ignore file
MaxOptions == 2       \* options of the matrix
MaxEvents == 3        \* events of one build stream

SeqsUpTo(S, n) == UNION {[1..k -> S] : k \in 0..n}

AxisValues == {"a", "b"}

\* the axes of a matrix, in declaration order
AxisOrders == {<<>>, <<"os">>, <<"os", "v">>, <<"v", "os">>}

\* blacklist entries: the empty one, on one axis, on both, on a foreign key
BlacklistEntries ==
  {[k \in {} |-> "a"], [os |-> "a"], [v |-> "b"], [os |-> "a", v |-> "b"],
   [os |-> "b", v |-> "a"], [w |-> "a"]}

\* "i-{os}{v}": an id template that names every axis
IdTemplate(names) ==
  <<[lit |-> "i"], [lit |-> "-"]>> \o [i \in 1..Len(names) |-> [field |-> names[i]]]

\* "i-{x}": an id template that names no axis
BadIdTemplate == <<[lit |-> "i"], [lit |-> "-"], [field |-> "x"]>>

\* "p-{ID}"
NameTemplate == <<[lit |-> "p"], [lit |-> "-"], [field |-> "ID"]>>

MatrixOf(axes, blacklist, image_id, options) ==
  [matrix |-> axes, blacklist |-> blacklist, image_id |-> image_id,
   image_name |-> NameTemplate, options |-> options]

TwoValues == <<"a", "b">>
OneAxis == <<[name |-> "os", values |-> TwoValues]>>
TwoAxes == <<[name |-> "os", values |-> TwoValues], [name |-> "v", values |-> TwoValues]>>

Root == <<"r">>
FileA == <<"a">>
FileBA == <<"b", "/", "a">>
KeyArg == <<"~", "/", "k">>
KeyPath == <<"/", "h", "/", "k">>
OtherArg == <<"/", "x", "/">> \o DockerfileName
DirArg == <<"k", "/">>

DirOf(files, unreadable, dockerignore, outside) ==
  [root |-> Root, template |-> "T", files |-> files, unreadable |-> unreadable,
   dockerignore |-> dockerignore, outside |-> outside]

\* a base directory every packing of which succeeds
PlainDir == DirOf({FileA, FileBA}, {}, PyList(<<>>), {KeyPath, OtherArg})

EvStreamA == [stream |-> PyStr(<<"a">>)]
EvStreamB == [stream |-> PyStr(<<"b">>)]
EvError == [error |-> PyStr(<<"x">>), errorDetail |-> PyStr(<<"x">>)]
EvErrorOnly == [error |-> PyStr(<<"x">>)]
EvErrorAndStream == [error |-> PyStr(<<"x">>), stream |-> PyStr(<<"b">>)]
EvAux == [aux |-> PyStr(<<"i">>)]
EvEmptyError == [error |-> PyStr(<<>>), stream |-> PyStr(<<"b">>)]
EvEmpty == [k \in {} |-> PyNone]

\* the events the build engine sends
Events ==
  {EvStreamA, EvStreamB, EvError, EvErrorOnly, EvErrorAndStream, EvAux, EvEmptyError,
   EvEmpty}

\* the argument values the parser of lines 188-201 can store for an option
ArgValues(option) ==
  IF IsStoreOption(option)
  THEN {PyNone, PyStr(KeyArg), PyStr(OtherArg), PyStr(DirArg)}
  ELSE {PyBool(FALSE), PyBool(TRUE)}

OptionDefs ==
  {PyNone, PyDict([k \in {} |-> TRUE]), PyDict([include_file |-> TRUE]),
   PyDict([include_file |-> FALSE])}

OptionNames == <<"k", "g", "d">>

\* the option mappings of up to n options
OptionSets(n) ==
  UNION {{[i \in 1..k |-> [name |-> OptionNames[i], def |-> defs[i]]] :
            defs \in [1..k -> OptionDefs]} : k \in 0..n}

\* the command lines the parser accepts for the options
ArgSets(options) ==
  {a \in [{options[i].name : i \in 1..Len(options)} ->
            UNION {ArgValues(options[i].def) : i \in 1..Len(options)}] :
     \A i \in 1..Len(options) : a[options[i].name] \in ArgValues(options[i].def)}

\* the state of the process when main starts
Start ==
  /\ pc = "main"
  /\ final_options = <<>>
  /\ combinations = <<>>
  /\ idx = 0
  /\ dockerfile = PyNone
  /\ exclude = PyNone
  /\ context = <<>>
  /\ image_name = <<>>
  /\ stream = <<>>
  /\ consumed = 0
  /\ raised = PyNone
  /\ requests = <<>>
  /\ stdout = <<>>
  /\ exception = NoException

\* one stream for each tuple of the cartesian product
ProductSize(axes) == Len(product([i \in 1..Len(axes) |-> axes[i].values]))

EngineScripts(axes, streams) == [1..ProductSize(axes) -> streams]

----------------------------------------------------------------------------
(* The program: main, build_all_combinations, build *)

\* main, lines 186-220: the options are resolved once
Main ==
  /\ pc = "main"
  /\ final_options' = ResolveOptions(matrix.options, args)
  /\ pc' = "expand"
  /\ UNCHANGED <<matrix, args, dir, engine, combinations, idx, dockerfile, exclude,
                 context, image_name, stream, consumed, raised, requests, stdout,
                 exception>>

\* build_all_combinations, line 147: get_all_combinations
Expand ==
  /\ pc = "expand"
  /\ LET r == get_all_combinations(matrix.matrix, matrix.blacklist) IN
     IF IsOk(r)
     THEN /\ combinations' = r.value.result
          /\ stdout' = stdout \o r.value.printed
          /\ idx' = 1
          /\ pc' = "loop"
          /\ UNCHANGED exception
     ELSE /\ exception' = Uncaught(r.exc, "get_all_combinations")
          /\ pc' = "aborted"
          /\ UNCHANGED <<combinations, stdout, idx>>
  /\ UNCHANGED <<matrix, args, dir, engine, final_options, dockerfile, exclude,
                 context, image_name, stream, consumed, raised, requests>>

\* line 150: the next combination is rendered
RenderStep ==
  /\ pc = "loop"
  /\ idx <= Len(combinations)
  /\ dockerfile' = Render(dir.template, final_options, combinations[idx])
  /\ pc' = "pack"
  /\ UNCHANGED <<matrix, args, dir, engine, final_options, combinations, idx,
                 exclude, context, image_name, stream, consumed, raised, requests,
                 stdout, exception>>

\* line 151: docker_context, outside the try block
Pack ==
  /\ pc = "pack"
  /\ exclude' = CleanedPatterns(dir)
  /\ LET r == docker_context(dockerfile, dir, final_options) IN
     IF IsOk(r)
     THEN /\ context' = r.value
          /\ pc' = "name"
          /\ UNCHANGED exception
     ELSE /\ exception' = Uncaught(r.exc, "docker_context")
          /\ pc' = "aborted"
          /\ UNCHANGED context
  /\ UNCHANGED <<matrix, args, dir, engine, final_options, combinations, idx,
                 dockerfile, image_name, stream, consumed, raised, requests, stdout>>

\* line 153: get_image_name
Name ==
  /\ pc = "name"
  /\ LET r == get_image_name(combinations[idx], matrix) IN
     IF IsOk(r)
     THEN /\ image_name' = r.value
          /\ pc' = "build"
          /\ UNCHANGED exception
     ELSE /\ exception' = Uncaught(r.exc, "get_image_name")
          /\ pc' = "aborted"
          /\ UNCHANGED image_name
  /\ UNCHANGED <<matrix, args, dir, engine, final_options, combinations, idx,
                 dockerfile, exclude, context, stream, consumed, raised, requests,
                 stdout>>

\* build, lines 96-97: the context is submitted, the engine answers with a stream
Submit ==
  /\ pc = "build"
  /\ engine # <<>>
  /\ requests' = Append(requests, [tag |-> image_name, fileobj |-> context,
                                   response |-> Head(engine)])
  /\ stream' = Head(engine)
  /\ engine' = Tail(engine)
  /\ consumed' = 0
  /\ pc' = "stream"
  /\ UNCHANGED <<matrix, args, dir, final_options, combinations, idx, dockerfile,
                 exclude, context, image_name, raised, stdout, exception>>

\* build, lines 98-106: one event of the stream
LogLine ==
  /\ pc = "stream"
  /\ consumed < Len(stream)
  /\ consumed' = consumed + 1
  /\ LET log_line == stream[consumed + 1] IN
     IF HasError(log_line)
     THEN /\ raised' = BuildingException(PyDict(log_line))
          /\ pc' = "except"
          /\ UNCHANGED stdout
     ELSE /\ stdout' = IF DOMAIN log_line # {}
                       THEN Append(stdout, [kind |-> "text", text |-> StreamText(log_line)])
                       ELSE stdout
          /\ UNCHANGED <<raised, pc>>
  /\ UNCHANGED <<matrix, args, dir, engine, final_options, combinations, idx,
                 dockerfile, exclude, context, image_name, stream, requests,
                 exception>>

\* build, line 98: the stream has ended, build returns
EndOfStream ==
  /\ pc = "stream"
  /\ consumed = Len(stream)
  /\ pc' = "else"
  /\ UNCHANGED <<matrix, args, dir, engine, final_options, combinations, idx,
                 dockerfile, exclude, context, image_name, stream, consumed, raised,
                 requests, stdout, exception>>

\* a faulty handler: the BuildingException is not caught
ReportFailure_Uncaught ==
  /\ pc = "except"
  /\ exception' = Uncaught("BuildingException", "build")
  /\ pc' = "aborted"
  /\ UNCHANGED <<matrix, args, dir, engine, final_options, combinations, idx,
                 dockerfile, exclude, context, image_name, stream, consumed, raised,
                 requests, stdout>>

\* lines 157-159: except BuildingException
ReportFailure ==
  /\ pc = "except"
  /\ stdout' = Append(stdout, [kind |-> "failure", image |-> image_name,
                               combination |-> combinations[idx],
                               error |-> raised.error])
  /\ raised' = PyNone
  /\ idx' = idx + 1
  /\ pc' = "loop"
  /\ UNCHANGED <<matrix, args, dir, engine, final_options, combinations, dockerfile,
                 exclude, context, image_name, stream, consumed, requests, exception>>

\* lines 160-161: else
ReportSuccess ==
  /\ pc = "else"
  /\ stdout' = Append(stdout, [kind |-> "success", image |-> image_name,
                               combination |-> combinations[idx]])
  /\ idx' = idx + 1
  /\ pc' = "loop"
  /\ UNCHANGED <<matrix, args, dir, engine, final_options, combinations, dockerfile,
                 exclude, context, image_name, stream, consumed, raised, requests,
                 exception>>

\* line 149: the loop is over, main returns
Finish ==
  /\ pc = "loop"
  /\ idx > Len(combinations)
  /\ pc' = "done"
  /\ UNCHANGED <<matrix, args, dir, engine, final_options, combinations, idx,
                 dockerfile, exclude, context, image_name, stream, consumed, raised,
                 requests, stdout, exception>>

Next ==
  \/ Main
  \/ Expand
  \/ RenderStep
  \/ Pack
  \/ Name
  \/ Submit
  \/ LogLine
  \/ EndOfStream
  \/ ReportFailure
  \/ ReportSuccess
  \/ Finish

----------------------------------------------------------------------------
(* Whole runs: small matrices, directories and option sets, every outcome of
   every build *)

RunStreams == {<<>>, <<EvStreamA>>, <<EvStreamA, EvError, EvStreamB>>}

RunBlacklists ==
  {PyNone, PyList(<<>>), PyList(<<[os |-> "a", v |-> "b"]>>), PyList(<<[os |-> "b"]>>)}

RunDirs ==
  {PlainDir,
   DirOf({FileA}, {}, PyNone, {}),
   DirOf({FileA, FileBA}, {FileBA}, PyList(<<>>), {KeyPath}),
   DirOf({FileA, DockerfileName}, {}, PyList(<<<<"*", "*", "/", "a">>>>), {KeyPath})}

RunOptions ==
  {<<>>,
   <<[name |-> "g", def |-> PyNone]>>,
   <<[name |-> "k", def |-> PyDict([include_file |-> TRUE])]>>}

\* the engine answers every build call with the same stream
UniformScripts(axes, streams) ==
  {[i \in 1..ProductSize(axes) |-> s] : s \in streams}

Init ==
  /\ \/ \* a sound configuration, every outcome of every build
        /\ \E axes \in {OneAxis, TwoAxes}, bl \in RunBlacklists \ {PyNone} :
             /\ matrix = MatrixOf(axes, bl, IdTemplate(<<"os">>), <<>>)
             /\ engine \in EngineScripts(axes, RunStreams)
        /\ args = <<>>
        /\ dir = PlainDir
     \/ \* every configuration, the same outcome for every build
        /\ \E axes \in {OneAxis, TwoAxes}, bl \in RunBlacklists,
              id \in {IdTemplate(<<"os">>), BadIdTemplate}, opts \in RunOptions :
             /\ matrix = MatrixOf(axes, bl, id, opts)
             /\ args \in ArgSets(opts)
             /\ engine \in UniformScripts(axes, RunStreams)
        /\ dir \in RunDirs
  /\ Start

Spec == Init /\ [][Next]_vars

----------------------------------------------------------------------------
(* get_all_combinations on every small matrix and blacklist *)

InitExpand ==
  /\ \E names \in AxisOrders, bl \in SeqsUpTo(BlacklistEntries, MaxBlacklist) :
     \E vals \in [1..Len(names) -> SeqsUpTo(AxisValues, MaxAxisLen)] :
     \E present \in BOOLEAN :
       /\ matrix = MatrixOf([i \in 1..Len(names) |-> [name |-> names[i], values |-> vals[i]]],
                            IF present THEN PyList(bl) ELSE PyNone,
                            IdTemplate(names), <<>>)
       /\ present \/ bl = <<>>
  /\ args = <<>>
  /\ dir = PlainDir
  /\ engine = <<>>
  /\ Start

NextExpand ==
  \/ Main
  \/ Expand

SpecExpand == InitExpand /\ [][NextExpand]_vars

----------------------------------------------------------------------------
(* docker_context on every small ignore file, and on every small option set *)

PatternChars == {"a", "/", "*"}

IgnoreFiles == SeqsUpTo(SeqsUpTo(PatternChars, MaxPatLen), MaxIgnoreLines)

InitPack ==
  /\ \/ /\ matrix = MatrixOf(OneAxis, PyList(<<>>), IdTemplate(<<"os">>), <<>>)
        /\ args = <<>>
        /\ \E lines \in IgnoreFiles :
             dir = DirOf({FileA, FileBA}, {}, PyList(lines), {})
     \/ /\ \E opts \in OptionSets(MaxOptions) :
             /\ matrix = MatrixOf(OneAxis, PyList(<<>>), IdTemplate(<<"os">>), opts)
             /\ args \in ArgSets(opts)
        /\ \E files \in SUBSET {FileA, DockerfileName}, ig \in {PyNone, PyList(<<>>)} :
           \E unreadable \in {{}} \cup {{f} : f \in files \cup {DockerignoreName}},
              outside \in {{KeyPath, OtherArg}, {KeyPath}} :
             dir = DirOf(files, unreadable, ig, outside)
  /\ engine = <<>>
  /\ Start

NextPack ==
  \/ Main
  \/ Expand
  \/ RenderStep
  \/ Pack

SpecPack == InitPack /\ [][NextPack]_vars

----------------------------------------------------------------------------
(* build on every short event stream *)

InitBuild ==
  /\ matrix = MatrixOf(OneAxis, PyList(<<[os |-> "b"]>>), IdTemplate(<<"os">>), <<>>)
  /\ args = <<>>
  /\ dir = PlainDir
  /\ \E s \in SeqsUpTo(Events, MaxEvents) : engine = <<s>>
  /\ Start

SpecBuild == InitBuild /\ [][Next]_vars

----------------------------------------------------------------------------
(* The properties *)

Terminated == pc \in {"done", "aborted"}

\* the success and failure lines printed so far, in order
TerminalLines == SelectSeq(stdout, LAMBDA l : l.kind \in {"success", "failure"})

\* an event that carries a non-empty error payload
IsErrorEvent(e) == "error" \in DOMAIN e /\ e.error # PyStr(<<>>)

\* an axis tuple counts once for each time the product holds it
AxisLen(i) == Len(matrix.matrix[i].values)
NumAxes == Len(matrix.matrix)
AxisNameSet == {matrix.matrix[i].name : i \in 1..NumAxes}

RECURSIVE SizeFrom(_)
\* the number of tuples of the axes i, i+1, ...
SizeFrom(i) == IF i > NumAxes THEN 1 ELSE AxisLen(i) * SizeFrom(i + 1)

\* the r-th tuple (r from 0) of the product, the first axis varying slowest,
\* as a mapping from every axis name to its value
TupleAt(r) ==
  [n \in AxisNameSet |->
     LET i == CHOOSE k \in 1..NumAxes : matrix.matrix[k].name = n
     IN matrix.matrix[i].values[((r \div SizeFrom(i + 1)) % AxisLen(i)) + 1]]

\* all pairs of the entry are pairs of the combination
EntryWithin(entry, c) == \A k \in DOMAIN entry : k \in DOMAIN c /\ c[k] = entry[k]

Matched(c) ==
  \E j \in 1..Len(matrix.blacklist.items) : EntryWithin(matrix.blacklist.items[j], c)

ExpectedCombinations ==
  SelectSeq([r \in 1..SizeFrom(1) |-> TupleAt(r - 1)], LAMBDA c : ~Matched(c))

\* C1: a packing failure (I/O error in docker_context) is caught and reported
\* for its combination and the later combinations are still attempted: a run
\* ended by nothing but packing I/O errors has reported every combination, in
\* combination order.
C1_PackFailureReported ==
  (Terminated /\ exception.type \in {"none", "IOError"})
    => /\ Len(TerminalLines) = Len(combinations)
       /\ \A i \in 1..Len(TerminalLines) :
            TerminalLines[i].combination = combinations[i]

\* C2: when every step before the build call succeeds, the run ends with one
\* terminal line per surviving combination, in combination order, a success
\* line iff the build met no error event; a failed build does not stop the
\* next one, and a build is submitted only after the previous terminal line.
C2_OneTerminalLinePerBuild ==
  /\ Len(requests) - Len(TerminalLines) =
       (IF pc \in {"stream", "except", "else"} THEN 1 ELSE 0)
  /\ \A i \in 1..Len(TerminalLines) :
       /\ TerminalLines[i].combination = combinations[i]
       /\ TerminalLines[i].image = requests[i].tag
       /\ TerminalLines[i].kind = "success"
            <=> ~\E j \in 1..Len(requests[i].response) :
                   IsErrorEvent(requests[i].response[j])
  /\ pc = "done" => Len(TerminalLines) = Len(combinations)
  /\ pc = "aborted" =>
       exception.at \in {"get_all_combinations", "docker_context", "get_image_name"}

\* C2 witness: a run that ended with a failure line followed by a success line
C2_Witness ==
  /\ pc = "done"
  /\ \E i \in 1..(Len(TerminalLines) - 1) :
       TerminalLines[i].kind = "failure" /\ TerminalLines[i + 1].kind = "success"

WellFormedId ==
  \A i \in 1..Len(matrix.image_id) :
    "field" \in DOMAIN matrix.image_id[i] => matrix.image_id[i].field \in AxisNameSet

\* C4: a matrix with no blacklist key is expanded to its full product and
\* one build is attempted per combination.
C4_NoBlacklistBuildsAll ==
  (/\ IsNone(matrix.blacklist)
   /\ WellFormedId
   /\ Terminated
   /\ exception.at # "docker_context")
    => /\ Len(combinations) = SizeFrom(1)
       /\ Len(requests) = SizeFrom(1)

\* the expansion the claim describes for one pattern
ExpectedExpansion(pattern) ==
  IF ~Contains(pattern, StarStar) THEN <<pattern>>
  ELSE LET m == CHOOSE k \in 1..(Len(pattern) - 1) :
                  /\ SubSeq(pattern, k, k + 1) = StarStar
                  /\ \A j \in 1..(k - 1) : SubSeq(pattern, j, j + 1) # StarStar
           head == RStrip(SubSeq(pattern, 1, m - 1), Sep)
           tail == LStrip(SubSeq(pattern, m + 2, Len(pattern)), Sep)
       IN [n \in 1..DepthBound |->
             join(<<head>> \o [k \in 1..(n - 1) |-> Star] \o <<tail>>)]

\* C5: clean_dockerignore returns, for every sequence of patterns, the
\* patterns in input order, one without '**' unchanged, one with '**' replaced
\* by its expansions for the levels 0, 1, ... up to the depth bound.
C5_PatternsExpandedInPlace ==
  (/\ pc \in {"name", "aborted"}
   /\ ~IsNone(dir.dockerignore)
   /\ DockerignoreName \notin dir.unreadable)
    => /\ exclude # PyNone
       /\ IsOk(exclude)
       /\ exclude.value =
            Concat([i \in 1..Len(FilterBool(dir.dockerignore.items)) |->
                      ExpectedExpansion(FilterBool(dir.dockerignore.items)[i])])

\* the names of the archive members
MemberNames == {context[i].name : i \in 1..Len(context)}

\* C6: without a .dockerignore file docker_context does not fail and packs
\* every file of the base directory.
C6_AbsentIgnoreFilePacks ==
  (/\ IsNone(dir.dockerignore)
   /\ dir.unreadable = {}
   /\ matrix.options = <<>>
   /\ pc \in {"name", "aborted"})
    => /\ pc = "name"
       /\ BaseFiles(dir) \subseteq MemberNames

\* C9: every archive docker_context produces has exactly one member named
\* Dockerfile.
C9_OneDockerfileEntry ==
  pc = "name" =>
    Cardinality({i \in 1..Len(context) : context[i].name = DockerfileName}) = 1

\* the options that are file references given on the command line
FileOptions ==
  SelectSeq(matrix.options,
            LAMBDA o : /\ ~IsNone(o.def)
                       /\ "include_file" \in DOMAIN o.def.d
                       /\ o.def.d.include_file
                       /\ args[o.name] \in {PyStr(KeyArg), PyStr(OtherArg)})

\* the path a command-line path names, and its last component
LocalPathOf(arg) == IF arg = KeyArg THEN KeyPath ELSE arg
LogicalNameOf(arg) == IF arg = KeyArg THEN <<"k">> ELSE DockerfileName

\* C10: for every resolved option set docker_context completes, with one
\* external member per truthy file-based option, named by the basename of the
\* supplied path and read from the resolved local path, and no other.
C10_OptionEntries ==
  (/\ pc \in {"name", "aborted"}
   /\ dir.dockerignore = PyList(<<>>)
   /\ dir.unreadable = {}
   /\ \A i \in 1..Len(FileOptions) :
        LocalPathOf(args[FileOptions[i].name].s) \in dir.outside)
    => /\ pc = "name"
       /\ SubSeq(context, 2 + Cardinality(BaseFiles(dir)), Len(context)) =
            [i \in 1..Len(FileOptions) |->
               [name |-> LogicalNameOf(args[FileOptions[i].name].s),
                kind |-> "file",
                path |-> LocalPathOf(args[FileOptions[i].name].s)]]

RECURSIVE TrailingWrites(_)
\* the number of text writes since the last line
TrailingWrites(out) ==
  IF out = <<>> \/ out[Len(out)].kind # "text" THEN 0
  ELSE TrailingWrites(SubSeq(out, 1, Len(out) - 1)) + 1

RECURSIVE TrailingText(_)
\* the text written since the last line
TrailingText(out) ==
  IF out = <<>> \/ out[Len(out)].kind # "text" THEN <<>>
  ELSE TrailingText(SubSeq(out, 1, Len(out) - 1)) \o out[Len(out)].text

\* the 'stream' fragments of the first n events, in order
RECURSIVE Fragments(_, _)
Fragments(events, n) ==
  IF n = 0 THEN <<>>
  ELSE Fragments(events, n - 1) \o
       (IF "stream" \in DOMAIN events[n] /\ ~IsErrorEvent(events[n])
        THEN events[n].stream.s ELSE <<>>)

\* C7: the text build() forwards is the concatenation, in arrival order, of
\* the 'stream' fragments of the events before the first error event; events
\* without a 'stream' fragment contribute nothing.
C7_ForwardedTextIsFragments ==
  pc \in {"stream", "except", "else"} =>
    TrailingText(stdout) = Fragments(stream, consumed)

====
